---- MODULE Spec2Model ----
(***************************************************************************)
(* Tree statistics evaluation of catboost's documents_importance library   *)
(* (catboost/libs/documents_importance/tree_statistics.cpp).               *)
(*                                                                         *)
(* ITreeStatisticsEvaluator::EvaluateTreeStatistics replays, tree by tree, *)
(* the leaf estimation iterations of training and records the numerators   *)
(* and denominators of every iteration.  The two subclasses                *)
(* TGradientTreeStatisticsEvaluator and TNewtonTreeStatisticsEvaluator     *)
(* supply the four formula methods.                                        *)
(*                                                                         *)
(* double/float values are modelled as exact extended rationals <<n, d>>:  *)
(* d > 0 is the finite value n/d in lowest terms, <<1,0>> is +Inf,         *)
(* <<-1,0>> is -Inf and <<0,0>> is NaN.  Rounding is not modelled.  The    *)
(* sign of zero is not modelled either: every divisor of the code is a sum *)
(* that starts from +0.0, so a zero divisor is always +0.0.                *)
(* Vectors are sequences; the code's 0-based index i is position i + 1.    *)
(***************************************************************************)
EXTENDS Integers, Sequences, FiniteSets, TLC

(* ------------------------------ bounds --------------------------------- *)

\* Documents of the pool in the general specification.
MaxDocs == 2
\* Trees of the model.
MaxTrees == 2
\* Depth of a tree (TreeSizes entry): a tree has 2^depth leaves.
MaxDepth == 1
\* leaf_estimation_iterations.
MaxIter == 2
\* Calls of EvaluateTreeStatistics on one evaluator.
MaxCalls == 2
\* Documents of the pool in the single-tree scenarios.
ScenarioDocs == 4

(* --------------------------- double arithmetic ------------------------- *)

Abs(n) == IF n < 0 THEN -n ELSE n

Sign(n) == IF n < 0 THEN -1 ELSE IF n > 0 THEN 1 ELSE 0

RECURSIVE Gcd(_, _)
Gcd(a, b) == IF b = 0 THEN a ELSE Gcd(b, a % b)

\* The canonical form of n/d (d >= 0); d = 0 gives Inf, -Inf or NaN.
Norm(n, d) ==
    IF d = 0 THEN <<Sign(n), 0>>
    ELSE LET g == Gcd(Abs(n), d) IN <<n \div g, d \div g>>

R(n) == <<n, 1>>
Zero == <<0, 1>>
One == <<1, 1>>
NaN == <<0, 0>>

IsFinite(x) == x[2] > 0

\* x + y of IEEE-754: Inf + Inf = Inf, Inf + (-Inf) = NaN, NaN absorbs.
Add(x, y) ==
    IF x[2] = 0 /\ y[2] = 0
    THEN (IF x = y THEN x ELSE NaN)
    ELSE Norm(x[1] * y[2] + y[1] * x[2], x[2] * y[2])

\* x * y of IEEE-754: Inf * 0 = NaN.
Mul(x, y) == Norm(x[1] * y[1], x[2] * y[2])

\* Unary minus.
Neg(x) == <<-x[1], x[2]>>

\* 1 / y of IEEE-754: 1 / 0 = +Inf (the zero is +0.0), 1 / Inf = 0.
Recip(y) == Norm(IF y[1] < 0 THEN -y[2] ELSE y[2], Abs(y[1]))

\* A division that yields 0 for a zero divisor.
Div_Guarded(x, y) == IF y = Zero THEN Zero ELSE Mul(x, Recip(y))

\* x / y of IEEE-754: nonzero / 0 = +-Inf, 0 / 0 = NaN, finite / Inf = 0.
Div(x, y) == Mul(x, Recip(y))

(* ------------------------------ vectors -------------------------------- *)

\* TVector<T>(n): n value-initialised entries.
Vec(n, x) == [i \in 1..n |-> x]

\* v[i] with the code's 0-based index.
At(v, i) == v[i + 1]

\* v with v[i] replaced by x (0-based).
Put(v, i, x) == [v EXCEPT ![i + 1] = x]

\* TVector::resize(n): truncates, or pads with value-initialised entries.
Resize(v, n, x) == [i \in 1..n |-> IF i <= Len(v) THEN v[i] ELSE x]

(* ------------------------------- state --------------------------------- *)

VARIABLES
    \* the evaluator: its class and its instance fields
    kind, DocCount,
    LeafCount, LeafIndices, LeafValues,
    FirstDerivatives, SecondDerivatives, ThirdDerivatives,
    \* the arguments of EvaluateTreeStatistics
    model, pool,
    \* the locals of EvaluateTreeStatistics
    pc, treeId, it, treeStatistics, approxes, localApproxes, leavesDocId,
    leafValues, formulaDenominators, formulaNumeratorAdding,
    formulaNumeratorMultiplier, leafNumerators,
    \* the sequences returned by the calls made so far
    returned

fields == <<LeafCount, LeafIndices, LeafValues,
            FirstDerivatives, SecondDerivatives, ThirdDerivatives>>
inputs == <<kind, DocCount, model, pool>>
treeLocals == <<localApproxes, leavesDocId, leafValues, formulaDenominators,
                formulaNumeratorAdding, formulaNumeratorMultiplier,
                leafNumerators>>
vars == <<kind, DocCount, LeafCount, LeafIndices, LeafValues,
          FirstDerivatives, SecondDerivatives, ThirdDerivatives,
          model, pool, pc, treeId, it, treeStatistics, approxes,
          localApproxes, leavesDocId, leafValues, formulaDenominators,
          formulaNumeratorAdding, formulaNumeratorMultiplier, leafNumerators,
          returned>>

(* ------------------------ external collaborators ----------------------- *)

\* The parameters read from model.ModelInfo["params"].
leavesEstimationIterations == model.leaf_estimation_iterations
learningRate == model.learning_rate
l2LeafReg == model.l2_leaf_reg
lossFunction == model.loss_function
treeCount == Len(model.TreeSizes)

\* The leaf router: the leaf of every document in tree t (0-based).
BuildIndicesForBinTree(m, t) == At(m.Router, t)

\* x >= n of IEEE-754 (false for NaN).
AtLeast(x, n) == x # NaN /\ x[1] >= n * x[2]

\* The derivative oracle: a pure function of the loss, the approximations
\* and the pool's targets, with x = approx[d] - target[d].  "RMSE" is the
\* loss x^2 / 2.  "Custom" stands for a user-defined objective whose second
\* and third derivatives are not constant and whose curvature is negative
\* below x = 2 (a non-convex objective).
EvaluateDerivatives(loss, approx, p) ==
    LET x(d) == Add(approx[d], Neg(p.Target[d]))
        k(d) == IF AtLeast(x(d), 2) THEN R(2) ELSE R(-1)
    IN  [first  |-> [d \in 1..Len(approx) |->
                        IF loss = "RMSE" THEN x(d) ELSE Mul(k(d), x(d))],
         second |-> [d \in 1..Len(approx) |->
                        IF loss = "RMSE" THEN One ELSE k(d)],
         third  |-> [d \in 1..Len(approx) |->
                        IF loss = "RMSE" THEN Zero
                        ELSE IF AtLeast(x(d), 2) THEN One ELSE R(-1)]]

(* --------------------- the four formula methods ------------------------ *)
(* c is the evaluator's instance state the method reads: DocCount,         *)
(* LeafCount, LeafIndices, LeafValues and the three derivative vectors.    *)

\* The loop "for docId: acc[LeafIndices[docId]] += term(docId)".
RECURSIVE Accumulate(_, _, _, _)
Accumulate(acc, c, term, docId) ==
    IF docId >= c.DocCount THEN acc
    ELSE LET leaf == At(c.LeafIndices, docId)
         IN  Accumulate(Put(acc, leaf, Add(At(acc, leaf), At(term, docId))),
                        c, term, docId + 1)

\* weights[docId] * v[docId] for every docId < DocCount.
Weighted(c, weights, v) ==
    [i \in 1..c.DocCount |-> Mul(weights[i], v[i])]

Gradient_ComputeLeafNumerators(c, weights) ==
    IF weights = <<>>
    THEN Accumulate(Vec(c.LeafCount, Zero), c, c.FirstDerivatives, 0)
    ELSE Accumulate(Vec(c.LeafCount, Zero), c,
                    Weighted(c, weights, c.FirstDerivatives), 0)

Gradient_ComputeLeafDenominators(c, weights, reg) ==
    LET sums == IF weights = <<>>
                THEN Accumulate(Vec(c.LeafCount, Zero), c,
                                Vec(c.DocCount, One), 0)
                ELSE Accumulate(Vec(c.LeafCount, Zero), c, weights, 0)
    IN  [leafId \in 1..c.LeafCount |-> Add(sums[leafId], reg)]

\* A numerator-adding term that subtracts the first derivative.
Gradient_ComputeFormulaNumeratorAdding_Minus(c) ==
    [i \in 1..c.DocCount |->
        Add(At(c.LeafValues, c.LeafIndices[i]), Neg(c.FirstDerivatives[i]))]

Gradient_ComputeFormulaNumeratorAdding(c) ==
    [i \in 1..c.DocCount |->
        Add(At(c.LeafValues, c.LeafIndices[i]), c.FirstDerivatives[i])]

\* A multiplier whose unweighted branch copies the first derivatives.
Gradient_ComputeFormulaNumeratorMultiplier_First(c, weights) ==
    IF weights = <<>>
    THEN c.FirstDerivatives
    ELSE Weighted(c, weights, c.SecondDerivatives)

Gradient_ComputeFormulaNumeratorMultiplier(c, weights) ==
    IF weights = <<>>
    THEN c.SecondDerivatives
    ELSE Weighted(c, weights, c.SecondDerivatives)

Newton_ComputeLeafNumerators(c, weights) ==
    IF weights = <<>>
    THEN Accumulate(Vec(c.LeafCount, Zero), c, c.FirstDerivatives, 0)
    ELSE Accumulate(Vec(c.LeafCount, Zero), c,
                    Weighted(c, weights, c.FirstDerivatives), 0)

\* Newton denominators that sum the first derivatives.
Newton_ComputeLeafDenominators_First(c, weights, reg) ==
    LET sums == IF weights = <<>>
                THEN Accumulate(Vec(c.LeafCount, Zero), c,
                                c.FirstDerivatives, 0)
                ELSE Accumulate(Vec(c.LeafCount, Zero), c,
                                Weighted(c, weights, c.FirstDerivatives), 0)
    IN  [leafId \in 1..c.LeafCount |-> Add(sums[leafId], reg)]

Newton_ComputeLeafDenominators(c, weights, reg) ==
    LET sums == IF weights = <<>>
                THEN Accumulate(Vec(c.LeafCount, Zero), c,
                                c.SecondDerivatives, 0)
                ELSE Accumulate(Vec(c.LeafCount, Zero), c,
                                Weighted(c, weights, c.SecondDerivatives), 0)
    IN  [leafId \in 1..c.LeafCount |-> Add(sums[leafId], reg)]

Newton_ComputeFormulaNumeratorAdding(c) ==
    [i \in 1..c.DocCount |->
        Add(Mul(At(c.LeafValues, c.LeafIndices[i]), c.SecondDerivatives[i]),
            c.FirstDerivatives[i])]

Newton_ComputeFormulaNumeratorMultiplier(c, weights) ==
    LET inner == [i \in 1..c.DocCount |->
                    Add(Mul(At(c.LeafValues, c.LeafIndices[i]),
                            c.ThirdDerivatives[i]),
                        c.SecondDerivatives[i])]
    IN  IF weights = <<>> THEN inner ELSE Weighted(c, weights, inner)

\* The virtual calls of ITreeStatisticsEvaluator.
ComputeLeafNumerators(k, c, weights) ==
    IF k = "Gradient" THEN Gradient_ComputeLeafNumerators(c, weights)
    ELSE Newton_ComputeLeafNumerators(c, weights)

ComputeLeafDenominators(k, c, weights, reg) ==
    IF k = "Gradient" THEN Gradient_ComputeLeafDenominators(c, weights, reg)
    ELSE Newton_ComputeLeafDenominators(c, weights, reg)

ComputeFormulaNumeratorAdding(k, c) ==
    IF k = "Gradient" THEN Gradient_ComputeFormulaNumeratorAdding(c)
    ELSE Newton_ComputeFormulaNumeratorAdding(c)

ComputeFormulaNumeratorMultiplier(k, c, weights) ==
    IF k = "Gradient" THEN Gradient_ComputeFormulaNumeratorMultiplier(c, weights)
    ELSE Newton_ComputeFormulaNumeratorMultiplier(c, weights)

(* ------------------------ EvaluateTreeStatistics ----------------------- *)

\* 1 << n, for the depths within MaxDepth (far from the width of int).
RECURSIVE Shl(_, _)
Shl(x, n) == IF n = 0 THEN x ELSE Shl(2 * x, n - 1)

\* A leavesDocId loop that starts at document 1.
RECURSIVE BuildLeavesDocId_SkipFirst(_, _, _, _)
BuildLeavesDocId_SkipFirst(acc, leafIndices, docCount, docId) ==
    IF docId >= docCount THEN acc
    ELSE IF docId = 0
    THEN BuildLeavesDocId_SkipFirst(acc, leafIndices, docCount, 1)
    ELSE LET leaf == At(leafIndices, docId)
         IN  BuildLeavesDocId_SkipFirst(
                 Put(acc, leaf, Append(At(acc, leaf), docId)),
                 leafIndices, docCount, docId + 1)

\* The loop "for docId: leavesDocId[LeafIndices[docId]].push_back(docId)".
RECURSIVE BuildLeavesDocId(_, _, _, _)
BuildLeavesDocId(acc, leafIndices, docCount, docId) ==
    IF docId >= docCount THEN acc
    ELSE LET leaf == At(leafIndices, docId)
         IN  BuildLeavesDocId(Put(acc, leaf, Append(At(acc, leaf), docId)),
                              leafIndices, docCount, docId + 1)

\* The loop "for docId: approx[docId] += values[LeafIndices[docId]]".
AddLeafValues(approx, values, leafIndices) ==
    [i \in 1..Len(approx) |-> Add(approx[i], At(values, leafIndices[i]))]

\* "for (auto& leafValue : leafValuesOneIteration) leafValue *= learningRate".
ScaleLeafValues(values, rate) ==
    [leafId \in 1..Len(values) |-> Mul(values[leafId], rate)]

\* A loop of lines 75-82 that adds the leaf values to approxes unscaled.
RECURSIVE ScaleAndApply_Unscaled(_, _, _, _, _)
ScaleAndApply_Unscaled(values, approx, leafIndices, rate, i) ==
    IF i > Len(values) THEN [leafValues |-> values, approxes |-> approx]
    ELSE LET scaled == ScaleLeafValues(values[i], rate)
         IN  ScaleAndApply_Unscaled([values EXCEPT ![i] = scaled],
                                    AddLeafValues(approx, values[i], leafIndices),
                                    leafIndices, rate, i + 1)

\* The loop of lines 75-82 over the iterations from position i on: scale the
\* iteration's leaf values, then add them to approxes.
RECURSIVE ScaleAndApply(_, _, _, _, _)
ScaleAndApply(values, approx, leafIndices, rate, i) ==
    IF i > Len(values) THEN [leafValues |-> values, approxes |-> approx]
    ELSE LET scaled == ScaleLeafValues(values[i], rate)
         IN  ScaleAndApply([values EXCEPT ![i] = scaled],
                           AddLeafValues(approx, scaled, leafIndices),
                           leafIndices, rate, i + 1)

\* An output that keeps only the record of the last tree.
PushBack_Overwrite(stats, record) == <<record>>

\* treeStatistics.push_back(record).
PushBack(stats, record) == Append(stats, record)

\* The record pushed at lines 84-92.
TreeRecord(leafCount, leafIndices, docIds, values, denominators, adding, multiplier) ==
    [LeafCount |-> leafCount,
     LeafIndices |-> leafIndices,
     LeavesDocId |-> docIds,
     LeafValues |-> values,
     FormulaDenominators |-> denominators,
     FormulaNumeratorAdding |-> adding,
     FormulaNumeratorMultiplier |-> multiplier]

\* Approximations that live in the evaluator and are created only once: a
\* later call starts from what the last call's derivatives buffer holds.
NewApproxes_Stale(docCount) ==
    IF FirstDerivatives = <<>> THEN Vec(docCount, Zero) ELSE FirstDerivatives

\* TVector<double> approxes(DocCount), line 26.
NewApproxes(docCount) == Vec(docCount, Zero)

\* What the reads weights[0..DocCount-1] of a non-empty weight vector see.
\* A vector shorter than DocCount is read past its end, which is undefined:
\* the read yields some value of GarbageWeights, or the process dies.
GarbageWeights == {Zero, One}

WeightsRead(weights, docCount) ==
    IF weights = <<>> \/ Len(weights) >= docCount THEN {weights}
    ELSE {weights \o tail : tail \in [1..(docCount - Len(weights)) -> GarbageWeights]}

ReadsPastEnd(weights, docCount) ==
    weights # <<>> /\ Len(weights) < docCount

\* A working vector updated with the leaf values times the learning rate.
UpdateLocalApproxes_Scaled(approx, values, leafIndices) ==
    AddLeafValues(approx, ScaleLeafValues(values, learningRate), leafIndices)

\* Lines 69-71: localApproxes[docId] += LeafValues[LeafIndices[docId]].
UpdateLocalApproxes(approx, values, leafIndices) ==
    AddLeafValues(approx, values, leafIndices)

\* The body of the loop over the iterations, lines 49-72, for an evaluator of
\* class k whose fields are c, on the working vector approx: what it leaves
\* in the fields and in the locals.
IterationResult(k, c, approx, m, p, weights) ==
    LET ders == EvaluateDerivatives(m.loss_function, approx, p)
        c0 == [DocCount |-> c.DocCount, LeafCount |-> c.LeafCount,
               LeafIndices |-> c.LeafIndices, LeafValues |-> c.LeafValues,
               FirstDerivatives |-> ders.first,
               SecondDerivatives |-> ders.second,
               ThirdDerivatives |-> ders.third]
        numerators == ComputeLeafNumerators(k, c0, weights)
        denominators == ComputeLeafDenominators(k, c0, weights, m.l2_leaf_reg)
        resized == Resize(c.LeafValues, c.LeafCount, Zero)
        values == [leafId \in DOMAIN resized |->
                      Div(Neg(numerators[leafId]), denominators[leafId])]
        c1 == [c0 EXCEPT !.LeafValues = values]
    IN  [FirstDerivatives |-> ders.first,
         SecondDerivatives |-> ders.second,
         ThirdDerivatives |-> ders.third,
         leafNumerators |-> numerators,
         leafDenominators |-> denominators,
         LeafValues |-> values,
         formulaNumeratorAdding |-> ComputeFormulaNumeratorAdding(k, c1),
         formulaNumeratorMultiplier |->
             ComputeFormulaNumeratorMultiplier(k, c1, weights),
         localApproxes |-> UpdateLocalApproxes(approx, values, c.LeafIndices)]

\* Lines 15-29: read the parameters, create the output and the approximations.
Call ==
    /\ pc = "idle"
    /\ Len(returned) < MaxCalls
    /\ treeStatistics' = <<>>
    /\ approxes' = NewApproxes(DocCount)
    /\ treeId' = 0
    /\ pc' = "trees"
    /\ UNCHANGED <<inputs, fields, it, treeLocals, returned>>

\* Lines 31-47: the head of the loop over the trees.
TreeBegin ==
    /\ pc = "trees"
    /\ treeId < treeCount
    /\ LeafCount' = Shl(1, At(model.TreeSizes, treeId))
    /\ LeafIndices' = BuildIndicesForBinTree(model, treeId)
    /\ leavesDocId' = BuildLeavesDocId(Vec(LeafCount', <<>>), LeafIndices',
                                       DocCount, 0)
    /\ leafValues' = Vec(leavesEstimationIterations, <<>>)
    /\ formulaDenominators' = Vec(leavesEstimationIterations, <<>>)
    /\ formulaNumeratorAdding' = Vec(leavesEstimationIterations, <<>>)
    /\ formulaNumeratorMultiplier' = Vec(leavesEstimationIterations, <<>>)
    /\ localApproxes' = approxes
    /\ it' = 0
    /\ pc' = "iterations"
    /\ UNCHANGED <<inputs, LeafValues, FirstDerivatives, SecondDerivatives,
                   ThirdDerivatives, treeId, treeStatistics, approxes,
                   leafNumerators, returned>>

\* Lines 48-73: one leaf estimation iteration.
Iteration ==
    /\ pc = "iterations"
    /\ it < leavesEstimationIterations
    /\ \E weights \in WeightsRead(pool.Weight, DocCount) :
       \E died \in {FALSE} \cup {ReadsPastEnd(pool.Weight, DocCount)} :
        LET r == IterationResult(kind,
                     [DocCount |-> DocCount, LeafCount |-> LeafCount,
                      LeafIndices |-> LeafIndices, LeafValues |-> LeafValues],
                     localApproxes, model, pool, weights)
        IN  /\ FirstDerivatives' = r.FirstDerivatives
            /\ SecondDerivatives' = r.SecondDerivatives
            /\ ThirdDerivatives' = r.ThirdDerivatives
            /\ IF died
               THEN /\ pc' = "died"
                    /\ UNCHANGED <<LeafValues, it, localApproxes, leafValues,
                                   formulaDenominators, formulaNumeratorAdding,
                                   formulaNumeratorMultiplier, leafNumerators>>
               ELSE /\ leafNumerators' = r.leafNumerators
                    /\ formulaNumeratorAdding' =
                         Put(formulaNumeratorAdding, it,
                             r.formulaNumeratorAdding)
                    /\ formulaNumeratorMultiplier' =
                         Put(formulaNumeratorMultiplier, it,
                             r.formulaNumeratorMultiplier)
                    /\ formulaDenominators' =
                         Put(formulaDenominators, it, r.leafDenominators)
                    /\ localApproxes' = r.localApproxes
                    /\ leafValues' = Put(leafValues, it, r.LeafValues)
                    /\ LeafValues' = At(leafValues, it)
                    /\ it' = it + 1
                    /\ pc' = "iterations"
    /\ UNCHANGED <<inputs, LeafCount, LeafIndices, treeId, treeStatistics,
                   approxes, leavesDocId, returned>>

\* Lines 75-97: scale the leaf values, update approxes, append the record.
TreeEnd ==
    /\ pc = "iterations"
    /\ it >= leavesEstimationIterations
    /\ LET done == ScaleAndApply(leafValues, approxes, LeafIndices,
                                 learningRate, 1)
       IN  /\ approxes' = done.approxes
           /\ treeStatistics' =
                PushBack(treeStatistics,
                         TreeRecord(LeafCount, LeafIndices, leavesDocId,
                                    done.leafValues, formulaDenominators,
                                    formulaNumeratorAdding,
                                    formulaNumeratorMultiplier))
    /\ treeId' = treeId + 1
    /\ it' = 0
    /\ localApproxes' = <<>>
    /\ leavesDocId' = <<>>
    /\ leafValues' = <<>>
    /\ formulaDenominators' = <<>>
    /\ formulaNumeratorAdding' = <<>>
    /\ formulaNumeratorMultiplier' = <<>>
    /\ leafNumerators' = <<>>
    /\ pc' = "trees"
    /\ UNCHANGED <<inputs, fields, returned>>

\* Line 98: return treeStatistics.
Return ==
    /\ pc = "trees"
    /\ treeId >= treeCount
    /\ returned' = Append(returned, treeStatistics)
    /\ treeStatistics' = <<>>
    /\ approxes' = <<>>
    /\ treeId' = 0
    /\ pc' = "idle"
    /\ UNCHANGED <<inputs, fields, it, treeLocals>>

Next == Call \/ TreeBegin \/ Iteration \/ TreeEnd \/ Return

(* ------------- EvaluateTreeStatistics as a function of its inputs ------- *)

\* The iterations i, i + 1, ... of one tree (lines 48-73) on the locals loc.
RECURSIVE IterationsFrom(_, _, _, _, _, _)
IterationsFrom(k, c, m, p, loc, i) ==
    IF i >= m.leaf_estimation_iterations THEN loc
    ELSE LET r == IterationResult(k, [c EXCEPT !.LeafValues = loc.LeafValues],
                                  loc.localApproxes, m, p, p.Weight)
         IN  IterationsFrom(k, c, m, p,
                 [LeafValues |-> At(loc.leafValues, i),
                  localApproxes |-> r.localApproxes,
                  leafValues |-> Put(loc.leafValues, i, r.LeafValues),
                  formulaDenominators |->
                      Put(loc.formulaDenominators, i, r.leafDenominators),
                  formulaNumeratorAdding |->
                      Put(loc.formulaNumeratorAdding, i,
                          r.formulaNumeratorAdding),
                  formulaNumeratorMultiplier |->
                      Put(loc.formulaNumeratorMultiplier, i,
                          r.formulaNumeratorMultiplier)],
                 i + 1)

\* The trees t, t + 1, ... (lines 31-97) on the output stats and on approx.
RECURSIVE TreesFrom(_, _, _, _, _, _, _)
TreesFrom(k, docCount, m, p, stats, approx, t) ==
    IF t >= Len(m.TreeSizes) THEN stats
    ELSE LET leafCount == Shl(1, At(m.TreeSizes, t))
             leafIndices == BuildIndicesForBinTree(m, t)
             n == m.leaf_estimation_iterations
             loc == IterationsFrom(k,
                        [DocCount |-> docCount, LeafCount |-> leafCount,
                         LeafIndices |-> leafIndices, LeafValues |-> <<>>],
                        m, p,
                        [LeafValues |-> <<>>,
                         localApproxes |-> approx,
                         leafValues |-> Vec(n, <<>>),
                         formulaDenominators |-> Vec(n, <<>>),
                         formulaNumeratorAdding |-> Vec(n, <<>>),
                         formulaNumeratorMultiplier |-> Vec(n, <<>>)],
                        0)
             done == ScaleAndApply(loc.leafValues, approx, leafIndices,
                                   m.learning_rate, 1)
         IN  TreesFrom(k, docCount, m, p,
                 PushBack(stats,
                     TreeRecord(leafCount, leafIndices,
                         BuildLeavesDocId(Vec(leafCount, <<>>), leafIndices,
                                          docCount, 0),
                         done.leafValues, loc.formulaDenominators,
                         loc.formulaNumeratorAdding,
                         loc.formulaNumeratorMultiplier)),
                 done.approxes, t + 1)

\* The sequence a call returns for a pool whose weight vector is empty or
\* holds one weight per document.
EvaluateTreeStatistics(k, docCount, m, p) ==
    TreesFrom(k, docCount, m, p, <<>>, NewApproxes(docCount), 0)

(* ---------------------------- initial states --------------------------- *)

LeafEstimationMethods == {"Gradient", "Newton"}
LossFunctions == {"RMSE", "Custom"}
LearningRates == {<<1, 2>>, One}
L2LeafRegs == {Zero, One}
WeightValues == {One, R(2)}
TargetValues == {R(-1), R(-2)}

\* A tree: its depth and the router's leaf index (in [0, 2^depth)) per document.
TreeChoices(docs) ==
    UNION {{[size |-> s, idx |-> f] : f \in [1..docs -> 0..(Shl(1, s) - 1)]} :
           s \in 0..MaxDepth}

\* The state after construction of an evaluator for docs documents, with a
\* model of a number of trees from treeCounts, an iteration count from iters
\* and a weight vector from weightVectors.
InitOver(docs, treeCounts, iters, weightVectors) ==
    /\ DocCount = docs
    /\ kind \in LeafEstimationMethods
    /\ \E n \in treeCounts : \E ts \in [1..n -> TreeChoices(docs)] :
       \E lf \in LossFunctions, n_it \in iters, lr \in LearningRates,
          reg \in L2LeafRegs :
          model = [TreeSizes |-> [t \in 1..n |-> ts[t].size],
                   Router |-> [t \in 1..n |-> ts[t].idx],
                   loss_function |-> lf,
                   leaf_estimation_method |-> kind,
                   leaf_estimation_iterations |-> n_it,
                   learning_rate |-> lr,
                   l2_leaf_reg |-> reg]
    /\ \E w \in weightVectors,
          tg \in [1..docs -> TargetValues] :
          pool = [Weight |-> w, Target |-> tg]
    /\ LeafCount = 0
    /\ LeafIndices = <<>>
    /\ LeafValues = <<>>
    /\ FirstDerivatives = <<>>
    /\ SecondDerivatives = <<>>
    /\ ThirdDerivatives = <<>>
    /\ pc = "idle"
    /\ treeId = 0
    /\ it = 0
    /\ treeStatistics = <<>>
    /\ approxes = <<>>
    /\ localApproxes = <<>>
    /\ leavesDocId = <<>>
    /\ leafValues = <<>>
    /\ formulaDenominators = <<>>
    /\ formulaNumeratorAdding = <<>>
    /\ formulaNumeratorMultiplier = <<>>
    /\ leafNumerators = <<>>
    /\ returned = <<>>

\* The weight vectors of length n.
Weights(n) == [1..n -> WeightValues]

\* The weight vectors of length n with the same weight for every document.
UniformWeights(n) == {Vec(n, w) : w \in WeightValues}

\* Any model and pool within the bounds; the weights are absent or one per
\* document.
Init ==
    \E docs \in 1..MaxDocs :
        InitOver(docs, 0..MaxTrees, 0..MaxIter, {<<>>} \cup Weights(docs))

Spec == Init /\ [][Next]_vars

\* One tree, one iteration, ScenarioDocs documents, uniform weights.
InitScenario ==
    InitOver(ScenarioDocs, {1}, {1}, {<<>>} \cup UniformWeights(ScenarioDocs))

SpecScenario == InitScenario /\ [][Next]_vars

\* One tree, and a weight vector that may be one shorter or one longer than
\* DocCount.
InitShape ==
    \E docs \in 1..MaxDocs :
        InitOver(docs, {1}, 1..MaxIter,
                 {<<>>} \cup Weights(docs - 1) \cup Weights(docs)
                        \cup Weights(docs + 1))

SpecShape == InitShape /\ [][Next]_vars

(* =============================== claims ================================ *)

\* The records of the output under construction and of the returned outputs.
Records ==
    {treeStatistics[k] : k \in 1..Len(treeStatistics)}
        \cup UNION {{returned[j][k] : k \in 1..Len(returned[j])} :
                    j \in 1..Len(returned)}

\* How often x occurs in the sequence v.
Count(v, x) == Cardinality({i \in 1..Len(v) : v[i] = x})

RECURSIVE SumLen(_, _)
SumLen(lists, i) ==
    IF i > Len(lists) THEN 0 ELSE Len(lists[i]) + SumLen(lists, i + 1)

\* C1: in every record the per-leaf document lists partition
\* {0..DocCount-1}: document d occurs exactly once, in the list of leaf
\* LeafIndices[d] and in no other, the lists hold nothing else, and their
\* lengths add up to DocCount.
C1_LeavesPartitionDocuments ==
    \A rec \in Records :
        /\ Len(rec.LeavesDocId) = rec.LeafCount
        /\ \A d \in 0..(DocCount - 1) : \A leaf \in 0..(rec.LeafCount - 1) :
              Count(At(rec.LeavesDocId, leaf), d) =
                  IF At(rec.LeafIndices, d) = leaf THEN 1 ELSE 0
        /\ \A leaf \in 0..(rec.LeafCount - 1) :
              \A i \in 1..Len(At(rec.LeavesDocId, leaf)) :
                  At(rec.LeavesDocId, leaf)[i] \in 0..(DocCount - 1)
        /\ SumLen(rec.LeavesDocId, 1) = DocCount

\* A returned record of a two-leaf tree with documents in both leaves.
C1_Witness ==
    /\ returned # <<>>
    /\ \E rec \in Records :
        /\ rec.LeafCount = 2
        /\ rec.LeavesDocId[1] # <<>>
        /\ rec.LeavesDocId[2] # <<>>

\* The k-th record is the record of tree k: its leaf count, its leaf-index
\* map, and leavesEstimationIterations entries in each per-iteration array,
\* one value per leaf or per document in each entry.
RecordOfTree(rec, k) ==
    /\ rec.LeafCount = Shl(1, model.TreeSizes[k])
    /\ rec.LeafIndices = model.Router[k]
    /\ Len(rec.LeafValues) = leavesEstimationIterations
    /\ Len(rec.FormulaDenominators) = leavesEstimationIterations
    /\ Len(rec.FormulaNumeratorAdding) = leavesEstimationIterations
    /\ Len(rec.FormulaNumeratorMultiplier) = leavesEstimationIterations
    /\ \A i \in 1..leavesEstimationIterations :
        /\ Len(rec.LeafValues[i]) = rec.LeafCount
        /\ Len(rec.FormulaDenominators[i]) = rec.LeafCount
        /\ Len(rec.FormulaNumeratorAdding[i]) = DocCount
        /\ Len(rec.FormulaNumeratorMultiplier[i]) = DocCount

\* C2: every returned output has exactly one record per tree, in model
\* order, the k-th being the record of tree k; the output under construction
\* holds the records of the trees processed so far; and a step never changes
\* a record already appended.
C2_OneRecordPerTreeInOrder ==
    /\ [](/\ \A j \in 1..Len(returned) :
                /\ Len(returned[j]) = treeCount
                /\ \A k \in 1..treeCount : RecordOfTree(returned[j][k], k)
          /\ pc \in {"trees", "iterations"} =>
                /\ Len(treeStatistics) = treeId
                /\ \A k \in 1..treeId : RecordOfTree(treeStatistics[k], k))
    /\ [][/\ pc \in {"trees", "iterations"} /\ pc' \in {"trees", "iterations"} =>
                /\ Len(treeStatistics') >= Len(treeStatistics)
                /\ \A k \in 1..Len(treeStatistics) :
                      treeStatistics'[k] = treeStatistics[k]
          /\ pc = "trees" /\ pc' = "idle" =>
                returned'[Len(returned')] = treeStatistics
          /\ \A j \in 1..Len(returned) : returned'[j] = returned[j]]_vars

\* A returned output of two trees with different leaf counts and two
\* iterations each.
C2_Witness ==
    /\ returned # <<>>
    /\ Len(returned[1]) = 2
    /\ returned[1][1].LeafCount # returned[1][2].LeafCount
    /\ Len(returned[1][1].LeafValues) = 2

\* C5: the second call on the same evaluator, model and pool returns the
\* same sequence as the first.
C5_SecondCallReturnsTheSame ==
    \A i, j \in 1..Len(returned) : returned[i] = returned[j]

\* Two calls have returned; the second started with the fields the first
\* left behind and produced leaf values that are not all zero.
C5_Witness ==
    /\ Len(returned) = 2
    /\ FirstDerivatives # <<>>
    /\ Len(returned[2]) = 2
    /\ \E i \in 1..Len(returned[2][2].LeafValues) :
          \E l \in 1..returned[2][2].LeafCount :
              returned[2][2].LeafValues[i][l] # Zero

\* Two calls with no iterations have returned a record per tree.
C5_WitnessNoIterations ==
    /\ Len(returned) = 2
    /\ leavesEstimationIterations = 0
    /\ returned[2] # <<>>

\* The documents (positions) the leaf-index map sends to leaf.
DocsOfLeaf(leafIndices, leaf) ==
    {d \in 1..Len(leafIndices) : leafIndices[d] = leaf}

\* The sum of v[d] over the documents d of S.
RECURSIVE SumOver(_, _)
SumOver(S, v) ==
    IF S = {} THEN Zero
    ELSE LET d == CHOOSE x \in S : TRUE
         IN  Add(v[d], SumOver(S \ {d}, v))

\* C3: for an empty weight vector, the denominators an iteration records
\* are, per leaf, the number of the leaf's documents plus l2LeafReg under
\* Gradient, and the sum of the second derivatives of the leaf's documents
\* plus l2LeafReg under Newton.
C3_UnweightedDenominators ==
    (pool.Weight = <<>> /\ pc = "iterations" /\ it >= 1) =>
        \A leaf \in 0..(LeafCount - 1) :
            At(At(formulaDenominators, it - 1), leaf) =
                IF kind = "Gradient"
                THEN Add(R(Cardinality(DocsOfLeaf(LeafIndices, leaf))),
                         l2LeafReg)
                ELSE Add(SumOver(DocsOfLeaf(LeafIndices, leaf),
                                 SecondDerivatives),
                         l2LeafReg)

\* Newton, assignment [0,0,1,1], second derivatives [1,1,1,1], l2LeafReg 1:
\* the recorded denominators are [3,3].
C3_Witness ==
    /\ kind = "Newton"
    /\ pool.Weight = <<>>
    /\ pc = "iterations" /\ it = 1
    /\ LeafIndices = <<0, 0, 1, 1>>
    /\ SecondDerivatives = <<One, One, One, One>>
    /\ l2LeafReg = One
    /\ formulaDenominators[1] = <<R(3), R(3)>>

C7_ZeroDenominatorIsNotFinite ==
    /\ \A rec \in Records : \A i \in 1..Len(rec.LeafValues) :
        \A leaf \in 1..rec.LeafCount :
            /\ rec.LeavesDocId[leaf] = <<>> =>
                  rec.FormulaDenominators[i][leaf] = l2LeafReg
            /\ rec.FormulaDenominators[i][leaf] = Zero =>
                  ~IsFinite(rec.LeafValues[i][leaf])
    /\ (pc = "iterations" /\ it >= 1) =>
        \A leaf \in 1..LeafCount :
            /\ leavesDocId[leaf] = <<>> =>
                  formulaDenominators[it][leaf] = l2LeafReg
            /\ formulaDenominators[it][leaf] = Zero =>
                  ~IsFinite(leafValues[it][leaf])

\* A call has returned two records, and the first holds a leaf value that
\* is not finite for an empty leaf with l2LeafReg = 0.
C7_Witness ==
    /\ returned # <<>>
    /\ Len(returned[1]) = 2
    /\ l2LeafReg = Zero
    /\ \E i \in 1..Len(returned[1][1].LeafValues) :
        \E leaf \in 1..returned[1][1].LeafCount :
            /\ returned[1][1].LeavesDocId[leaf] = <<>>
            /\ returned[1][1].FormulaDenominators[i][leaf] = Zero
            /\ ~IsFinite(returned[1][1].LeafValues[i][leaf])

\* The evaluator's fields after the last iteration, with its leaf values.
LastContext ==
    [DocCount |-> DocCount, LeafCount |-> LeafCount,
     LeafIndices |-> LeafIndices, LeafValues |-> leafValues[it],
     FirstDerivatives |-> FirstDerivatives,
     SecondDerivatives |-> SecondDerivatives,
     ThirdDerivatives |-> ThirdDerivatives]

\* C8: on the fields an iteration leaves, each of ComputeLeafNumerators,
\* ComputeLeafDenominators and ComputeFormulaNumeratorMultiplier of either
\* strategy gives the same result for DocCount weights of 1 as for no
\* weights; and what a call returns for a pool whose weights are all 1 is
\* what EvaluateTreeStatistics yields for the same pool without weights.
C8_UnitWeightsAreNoWeights ==
    /\ (pc = "iterations" /\ it >= 1) =>
        \A k \in LeafEstimationMethods :
            /\ ComputeLeafNumerators(k, LastContext, Vec(DocCount, One)) =
                  ComputeLeafNumerators(k, LastContext, <<>>)
            /\ ComputeLeafDenominators(k, LastContext, Vec(DocCount, One),
                                       l2LeafReg) =
                  ComputeLeafDenominators(k, LastContext, <<>>, l2LeafReg)
            /\ ComputeFormulaNumeratorMultiplier(k, LastContext,
                                                 Vec(DocCount, One)) =
                  ComputeFormulaNumeratorMultiplier(k, LastContext, <<>>)
    /\ pool.Weight = Vec(DocCount, One) =>
        \A j \in 1..Len(returned) :
            returned[j] = EvaluateTreeStatistics(kind, DocCount, model,
                              [pool EXCEPT !.Weight = <<>>])

\* A call on a pool of two documents of weight 1 has returned the records
\* of two trees with two iterations each.
C8_Witness ==
    /\ pool.Weight = <<One, One>>
    /\ returned # <<>>
    /\ Len(returned[1]) = 2
    /\ Len(returned[1][1].LeafValues) = 2

\* The sum of values[j][leaf] over the first n entries of values.
RECURSIVE SumLeafValues(_, _, _)
SumLeafValues(values, leaf, n) ==
    IF n = 0 THEN Zero
    ELSE Add(SumLeafValues(values, leaf, n - 1), At(values[n], leaf))

\* approxes plus, per document, its leaf's values of the first n iterations.
WorkingVectorAfter(n) ==
    [d \in 1..DocCount |->
        Add(approxes[d], SumLeafValues(leafValues, LeafIndices[d], n))]

\* The weight of document d: 1 when the pool has no weights.
WeightOf(d) == IF pool.Weight = <<>> THEN One ELSE pool.Weight[d]

\* C9: while a tree's iterations run, exactly the first it entries of the
\* per-iteration arrays are filled; the working vector is approxes plus the
\* unscaled leaf values of the iterations made; the derivatives of the last
\* iteration were evaluated at the working vector before it; its leaf values
\* are -numerator/denominator, not scaled; and its numerator-adding and
\* numerator-multiplier terms come from these leaf values and derivatives.
C9_IterationOrderAndInputs ==
    pc = "iterations" =>
        /\ \A j \in 1..Len(leafValues) : (j <= it) <=> (leafValues[j] # <<>>)
        /\ localApproxes = WorkingVectorAfter(it)
        /\ it >= 1 =>
            LET ders == EvaluateDerivatives(lossFunction,
                                            WorkingVectorAfter(it - 1), pool)
                lv(d) == At(leafValues[it], LeafIndices[d])
            IN  /\ FirstDerivatives = ders.first
                /\ SecondDerivatives = ders.second
                /\ ThirdDerivatives = ders.third
                /\ \A leaf \in 1..LeafCount :
                      leafValues[it][leaf] =
                          Div(Neg(leafNumerators[leaf]),
                              formulaDenominators[it][leaf])
                /\ \A d \in 1..DocCount :
                    /\ formulaNumeratorAdding[it][d] =
                          IF kind = "Gradient"
                          THEN Add(lv(d), ders.first[d])
                          ELSE Add(Mul(lv(d), ders.second[d]), ders.first[d])
                    /\ formulaNumeratorMultiplier[it][d] =
                          IF kind = "Gradient"
                          THEN Mul(WeightOf(d), ders.second[d])
                          ELSE Mul(WeightOf(d),
                                   Add(Mul(lv(d), ders.third[d]),
                                       ders.second[d]))

\* The second iteration of a tree is made, with a learning rate below 1 and
\* leaf values of the first iteration that are not zero.
C9_Witness ==
    /\ pc = "iterations" /\ it = 2
    /\ learningRate # One
    /\ \E leaf \in 1..LeafCount :
          IsFinite(leafValues[1][leaf]) /\ leafValues[1][leaf] # Zero
    /\ localApproxes # approxes

\* C10: approxes has DocCount entries during a call and is all zeros before
\* the first tree; an iteration does not change it; the head of a tree
\* copies it to the working vector; and the end of a tree adds to every
\* document learningRate times the sum of its leaf's unscaled values of the
\* tree's iterations, and records the leaf values times learningRate.
C10_PersistentApproximations ==
    /\ [](/\ pc \in {"trees", "iterations"} => Len(approxes) = DocCount
          /\ (pc = "trees" /\ treeId = 0) => approxes = Vec(DocCount, Zero))
    /\ [][/\ (pc = "iterations" /\ pc' = "iterations") => approxes' = approxes
          /\ (pc = "trees" /\ pc' = "iterations") =>
                (approxes' = approxes /\ localApproxes' = approxes)
          /\ (pc = "iterations" /\ pc' = "trees") =>
                /\ \A d \in 1..DocCount :
                      approxes'[d] =
                          Add(approxes[d],
                              Mul(learningRate,
                                  SumLeafValues(leafValues, LeafIndices[d],
                                                Len(leafValues))))
                /\ LET rec == treeStatistics'[Len(treeStatistics')]
                   IN  \A i \in 1..Len(leafValues) : \A leaf \in 1..LeafCount :
                          rec.LeafValues[i][leaf] =
                              Mul(learningRate, leafValues[i][leaf])]_vars

\* The second tree starts from approximations that are not zero and differ
\* from the working vector the first tree ended with.
C10_Witness ==
    /\ pc = "iterations" /\ treeId = 1 /\ it = 0
    /\ learningRate # One
    /\ leavesEstimationIterations = 2
    /\ approxes # Vec(DocCount, Zero)
    /\ localApproxes = approxes
    /\ \A d \in 1..DocCount : IsFinite(approxes[d])

\* C6: a call on a pool whose non-empty weight vector has a length other
\* than DocCount returns nothing.
C6_ShapeMismatchFailsFast ==
    (pool.Weight # <<>> /\ Len(pool.Weight) # DocCount) => returned = <<>>

====
